---- MODULE Spec2Model ----
(***************************************************************************)
(* A model of the wanikani-trainer pipeline:                               *)
(*   - generate_sentences.py : the line parser of a completion, the        *)
(*     per-item failure handling and the batch loop with its progress save *)
(*   - sync_to_pwa.py        : the validator/packager                      *)
(*                                                                         *)
(* A text is a sequence of tokens (strings).  A token is a label such as   *)
(* "SENTENCE1_JP:", the blank " ", or any other string standing for a run  *)
(* of ordinary characters.                                                 *)
(***************************************************************************)
EXTENDS Integers, Sequences, FiniteSets, TLC

VARIABLES
    \* ---- generate_sentences(word, call_llm) ----
    pc,          \* position in generate_sentences: "call", "parse", "done", or "idle"
    lines,       \* response.strip().split("\n"): the completion, line by line
    idx,         \* number of lines the for loop has consumed
    current,     \* the pending record (a dict)
    sentences,   \* the emitted records
    result,      \* the returned SentenceSet, or NoResult before the return
    failed,      \* TRUE when the except branch produced the result
    \* ---- generate_sentences.main: the batch loop ----
    bpc,         \* position in main: "loop", "done", "interrupted", "aborted", or "idle"
    vocab,       \* the loaded vocabulary list
    backend,     \* what call_llm did for each item so far: "ok" or "fail"
    i,           \* number of completed loop iterations
    results,     \* the in-memory results list
    output,      \* data/sentences.json as written by main: [exists, data]
    \* ---- sync_to_pwa.main ----
    source,      \* data/sentences.json as read by the packager: [exists, data]
    dest,        \* pwa/sentences.json: [exists, data]
    runs,        \* number of packager runs so far
    warning_count, \* warning_count of the last run
    \* ---- sync_to_wanikani.main ----
    spc,         \* position in main: "start", "loop", "tally", "archive_open",
                 \* "archive_dump", "unlink", "done", "interrupted", or "idle"
    api_key,     \* TRUE when WANIKANI_API_KEY is set
    pending,     \* pwa/easy_reviews.json: [exists, data]
    easy_reviews, \* the batch loaded by the current run
    pos,         \* number of records the for loop has consumed
    success,     \* the success counter
    failed_reviews, \* the failed counter
    requests,    \* the POST /reviews requests of the current run, with their outcome
    archives,    \* the files of data/synced_reviews, in the order they were opened
    history,     \* per run started: the records requested and the records accepted
    \* ---- fetch_vocab.extract_vocab_data ----
    fpc,         \* position in extract_vocab_data: "extract", "done", or "idle"
    assignments, \* the assignments argument
    subjects,    \* the subjects argument: subject id -> level, 0 when not fetched
    vocab_list   \* the returned list

vars == <<pc, lines, idx, current, sentences, result, failed,
          bpc, vocab, backend, i, results, output,
          source, dest, runs, warning_count,
          spc, api_key, pending, easy_reviews, pos, success, failed_reviews,
          requests, archives, history,
          fpc, assignments, subjects, vocab_list>>

parseVars == <<pc, lines, idx, current, sentences, result, failed>>
batchVars == <<bpc, vocab, backend, i, results, output>>
pwaVars   == <<source, dest, runs, warning_count>>
reviewVars == <<spc, api_key, pending, easy_reviews, pos, success, failed_reviews,
                requests, archives, history>>
fetchVars == <<fpc, assignments, subjects, vocab_list>>

\* Bounds of the model.
MaxLines == 5

NoResult == "NoResult"
\* A file that does not exist, and a file holding a JSON collection.
NoFile == [exists |-> FALSE, data |-> <<>>]
File(data) == [exists |-> TRUE, data |-> data]

(***************************************************************************)
(* Text helpers                                                            *)
(***************************************************************************)
S1JP == "SENTENCE1_JP:"
S1EN == "SENTENCE1_EN:"
S2JP == "SENTENCE2_JP:"
S2EN == "SENTENCE2_EN:"
Labels == {S1JP, S1EN, S2JP, S2EN}
JpLabels == {S1JP, S2JP}
EnLabels == {S1EN, S2EN}

\* str.strip(): leading and trailing blanks removed.
RECURSIVE LStrip(_)
LStrip(s) == IF s # <<>> /\ Head(s) = " " THEN LStrip(Tail(s)) ELSE s

RECURSIVE RStrip(_)
RStrip(s) ==
    IF s # <<>> /\ s[Len(s)] = " " THEN RStrip(SubSeq(s, 1, Len(s) - 1)) ELSE s

Strip(s) == RStrip(LStrip(s))

\* str.startswith(label)
StartsWith(s, label) == s # <<>> /\ Head(s) = label

\* str.replace(label, ""): every occurrence removed.
Replace(s, label) == SelectSeq(s, LAMBDA tok : tok # label)

\* line.replace(label, "").strip()
ExtractText(line, label) == Strip(Replace(line, label))

(***************************************************************************)
(* Dicts: functions from a set of keys                                     *)
(***************************************************************************)
EmptyDict == [k \in {} |-> <<>>]

DictSet(d, key, val) ==
    [k \in (DOMAIN d) \cup {key} |-> IF k = key THEN val ELSE d[k]]

(***************************************************************************)
(* The parser: one iteration of "for line in lines"                        *)
(***************************************************************************)
\* A variant that tests the third branch against the first label.
ParseStepCopyPaste(st, rawline) ==
    LET line == Strip(rawline) IN
    IF StartsWith(line, S1JP) THEN
        [st EXCEPT !.current = DictSet(st.current, "japanese", ExtractText(line, S1JP))]
    ELSE IF StartsWith(line, S1EN) THEN
        LET cur == DictSet(st.current, "english", ExtractText(line, S1EN)) IN
        IF "japanese" \in DOMAIN cur
        THEN [current |-> EmptyDict, sentences |-> Append(st.sentences, cur)]
        ELSE [st EXCEPT !.current = cur]
    ELSE IF StartsWith(line, S2EN) THEN
        LET cur == DictSet(st.current, "english", ExtractText(line, S2EN)) IN
        IF "japanese" \in DOMAIN cur
        THEN [current |-> cur, sentences |-> Append(st.sentences, cur)]
        ELSE [st EXCEPT !.current = cur]
    ELSE st

\* A variant whose Japanese branches first flush a pending Japanese text.
ParseStepFlush(st, rawline) ==
    LET line == Strip(rawline)
        flushed == IF "japanese" \in DOMAIN st.current
                   THEN Append(st.sentences, st.current)
                   ELSE st.sentences
    IN
    IF StartsWith(line, S1JP) THEN
        [current |-> DictSet(st.current, "japanese", ExtractText(line, S1JP)),
         sentences |-> flushed]
    ELSE IF StartsWith(line, S1EN) THEN
        LET cur == DictSet(st.current, "english", ExtractText(line, S1EN)) IN
        IF "japanese" \in DOMAIN cur
        THEN [current |-> EmptyDict, sentences |-> Append(st.sentences, cur)]
        ELSE [st EXCEPT !.current = cur]
    ELSE IF StartsWith(line, S2JP) THEN
        [current |-> DictSet(st.current, "japanese", ExtractText(line, S2JP)),
         sentences |-> flushed]
    ELSE IF StartsWith(line, S2EN) THEN
        LET cur == DictSet(st.current, "english", ExtractText(line, S2EN)) IN
        IF "japanese" \in DOMAIN cur
        THEN [current |-> cur, sentences |-> Append(st.sentences, cur)]
        ELSE [st EXCEPT !.current = cur]
    ELSE st

\* A variant whose Japanese branches keep a Japanese text that is already pending.
ParseStepKeepFirst(st, rawline) ==
    LET line == Strip(rawline)
        setdefault(d, val) == IF "japanese" \in DOMAIN d THEN d
                              ELSE DictSet(d, "japanese", val)
    IN
    IF StartsWith(line, S1JP) THEN
        [st EXCEPT !.current = setdefault(st.current, ExtractText(line, S1JP))]
    ELSE IF StartsWith(line, S1EN) THEN
        LET cur == DictSet(st.current, "english", ExtractText(line, S1EN)) IN
        IF "japanese" \in DOMAIN cur
        THEN [current |-> EmptyDict, sentences |-> Append(st.sentences, cur)]
        ELSE [st EXCEPT !.current = cur]
    ELSE IF StartsWith(line, S2JP) THEN
        [st EXCEPT !.current = setdefault(st.current, ExtractText(line, S2JP))]
    ELSE IF StartsWith(line, S2EN) THEN
        LET cur == DictSet(st.current, "english", ExtractText(line, S2EN)) IN
        IF "japanese" \in DOMAIN cur
        THEN [current |-> cur, sentences |-> Append(st.sentences, cur)]
        ELSE [st EXCEPT !.current = cur]
    ELSE st

\* generate_sentences, lines 109-122: the body of the for loop.  st is
\* [current, sentences]; the SENTENCE1_EN branch resets current after the
\* append, the SENTENCE2_EN branch does not.
ParseStep(st, rawline) ==
    LET line == Strip(rawline) IN
    IF StartsWith(line, S1JP) THEN
        [st EXCEPT !.current = DictSet(st.current, "japanese", ExtractText(line, S1JP))]
    ELSE IF StartsWith(line, S1EN) THEN
        LET cur == DictSet(st.current, "english", ExtractText(line, S1EN)) IN
        IF "japanese" \in DOMAIN cur
        THEN [current |-> EmptyDict, sentences |-> Append(st.sentences, cur)]
        ELSE [st EXCEPT !.current = cur]
    ELSE IF StartsWith(line, S2JP) THEN
        [st EXCEPT !.current = DictSet(st.current, "japanese", ExtractText(line, S2JP))]
    ELSE IF StartsWith(line, S2EN) THEN
        LET cur == DictSet(st.current, "english", ExtractText(line, S2EN)) IN
        IF "japanese" \in DOMAIN cur
        THEN [current |-> cur, sentences |-> Append(st.sentences, cur)]
        ELSE [st EXCEPT !.current = cur]
    ELSE st

\* generate_sentences, lines 105-122: the whole loop over a completion.
RECURSIVE ParseFrom(_, _)
ParseFrom(st, ls) ==
    IF ls = <<>> THEN st ELSE ParseFrom(ParseStep(st, Head(ls)), Tail(ls))

ParseLines(ls) == ParseFrom([current |-> EmptyDict, sentences |-> <<>>], ls).sentences

\* The dict generate_sentences returns (lines 124-131 and 135-142); of the
\* vocabulary fields only the id and the characters are kept.
SentenceSet(word, sents) ==
    [subject_id |-> word.id, word |-> word.characters, sentences |-> sents]

(***************************************************************************)
(* Completions of the parser specification                                 *)
(***************************************************************************)
LineKinds == Labels \cup {"other"}
Styles == {"plain", "noisy", "echo"}

\* The text carried by line n.
Tok(n) == ToString(n)

\* Line n of a completion, of the given kind, written in the given style:
\*   plain : "LABEL text"            and  "text"
\*   noisy : " LABEL text "          and  "* LABEL text"  (a bulleted label)
\*   echo  : "LABELtextLABEL"        and  ""              (an empty line)
MkLine(kind, n, style) ==
    IF kind \in Labels THEN
        CASE style = "plain" -> <<kind, " ", Tok(n)>>
          [] style = "noisy" -> <<" ", kind, " ", Tok(n), " ">>
          [] style = "echo"  -> <<kind, Tok(n), kind>>
    ELSE
        CASE style = "plain" -> <<Tok(n)>>
          [] style = "noisy" -> <<"*", S2EN, " ", Tok(n)>>
          [] style = "echo"  -> <<>>

\* A completion of len lines: the kinds of its lines and its style.
Completion(len, ks, style) == [n \in 1..len |-> MkLine(ks[n], n, style)]

TheWord == [id |-> 1, characters |-> <<"w">>]

(***************************************************************************)
(* generate_sentences as a state machine                                   *)
(***************************************************************************)
BatchIdle ==
    /\ bpc = "idle" /\ vocab = <<>> /\ backend = <<>> /\ i = 0
    /\ results = <<>> /\ output = NoFile

PwaIdle ==
    /\ source = NoFile /\ dest = NoFile
    /\ runs = 0 /\ warning_count = 0

ParseIdle ==
    /\ pc = "idle" /\ lines = <<>> /\ idx = 0 /\ current = EmptyDict
    /\ sentences = <<>> /\ result = NoResult /\ failed = FALSE

ReviewIdle ==
    /\ spc = "idle" /\ api_key = FALSE /\ pending = NoFile /\ easy_reviews = <<>>
    /\ pos = 0 /\ success = 0 /\ failed_reviews = 0
    /\ requests = <<>> /\ archives = <<>> /\ history = <<>>

FetchIdle ==
    /\ fpc = "idle" /\ assignments = <<>> /\ subjects = <<>> /\ vocab_list = <<>>

InitParse ==
    /\ pc = "call"
    /\ lines = <<>>
    /\ idx = 0
    /\ current = EmptyDict
    /\ sentences = <<>>
    /\ result = NoResult
    /\ failed = FALSE
    /\ BatchIdle
    /\ PwaIdle
    /\ ReviewIdle
    /\ FetchIdle

\* line 101 returns a completion; lines 104-107 split it and reset the state.
CallOk ==
    /\ pc = "call"
    /\ \E len \in 0..MaxLines :
          \E ks \in [1..len -> LineKinds], style \in Styles :
              lines' = Completion(len, ks, style)
    /\ idx' = 0
    /\ current' = EmptyDict
    /\ sentences' = <<>>
    /\ pc' = "parse"
    /\ UNCHANGED <<result, failed, batchVars, pwaVars,
                 reviewVars, fetchVars>>

\* line 101 raises: the except branch returns an empty SentenceSet.
CallFail ==
    /\ pc = "call"
    /\ result' = SentenceSet(TheWord, <<>>)
    /\ failed' = TRUE
    /\ pc' = "done"
    /\ UNCHANGED <<lines, idx, current, sentences, batchVars, pwaVars,
                 reviewVars, fetchVars>>

\* One iteration of the for loop.
ParseLine ==
    /\ pc = "parse"
    /\ idx < Len(lines)
    /\ LET st == ParseStep([current |-> current, sentences |-> sentences],
                           lines[idx + 1])
       IN /\ current' = st.current
          /\ sentences' = st.sentences
    /\ idx' = idx + 1
    /\ UNCHANGED <<pc, lines, result, failed, batchVars, pwaVars,
                 reviewVars, fetchVars>>

\* The loop is exhausted: lines 124-131.
Return ==
    /\ pc = "parse"
    /\ idx = Len(lines)
    /\ result' = SentenceSet(TheWord, sentences)
    /\ pc' = "done"
    /\ UNCHANGED <<lines, idx, current, sentences, failed, batchVars, pwaVars,
                 reviewVars, fetchVars>>

NextParse == CallOk \/ CallFail \/ ParseLine \/ Return

SpecParse == InitParse /\ [][NextParse]_vars

(***************************************************************************)
(* Claims about the parser                                                 *)
(***************************************************************************)
\* The label line n of the completion carries, "none" for an unlabelled line.
LabelOf(n) ==
    LET line == Strip(lines[n]) IN
    IF line # <<>> /\ Head(line) \in Labels THEN Head(line) ELSE "none"

\* The text line n carries after its label.
TextOf(n) == ExtractText(Strip(lines[n]), LabelOf(n))

\* The indices of the labelled lines, in input order.
LabelledLines ==
    SelectSeq([n \in 1..Len(lines) |-> n], LAMBDA n : LabelOf(n) # "none")

\* The sentence number of a label.
NumberOf(label) == IF label \in {S1JP, S1EN} THEN 1 ELSE 2

Pair(jp, en) == [japanese |-> jp, english |-> en]

\* generate_sentences returned from its try branch.
Parsed == pc = "done" /\ ~failed

\* The completion consists of the four labelled lines in order, with any
\* unlabelled lines interleaved.
WellFormed ==
    [k \in DOMAIN LabelledLines |-> LabelOf(LabelledLines[k])]
        = <<S1JP, S1EN, S2JP, S2EN>>

\* C1: for every completion made of the four labelled lines SENTENCE1_JP,
\* SENTENCE1_EN, SENTENCE2_JP, SENTENCE2_EN in that order, with unlabelled
\* lines interleaved, the parser emits exactly 2 records: the SENTENCE1 pair
\* first, then the SENTENCE2 pair.
C1_TwoRecordsInOrder ==
    (Parsed /\ WellFormed) =>
        result.sentences =
            << Pair(TextOf(LabelledLines[1]), TextOf(LabelledLines[2])),
               Pair(TextOf(LabelledLines[3]), TextOf(LabelledLines[4])) >>

\* A well-formed completion with an unlabelled line between the labelled ones
\* has been parsed.
C1_Witness ==
    /\ Parsed /\ WellFormed
    /\ \E n \in 2..(Len(lines) - 1) :
          /\ LabelOf(n) = "none"
          /\ \E m \in 1..(n - 1) : LabelOf(m) # "none"
          /\ \E m \in (n + 1)..Len(lines) : LabelOf(m) # "none"
    /\ Len(result.sentences) = 2

\* C2 (as claimed): every emitted record pairs a Japanese-labelled line with
\* the same-numbered English-labelled line that follows it, so an English
\* label arriving out of order emits no record.
C2_StrictPairs ==
    Parsed =>
        \A k \in DOMAIN result.sentences :
            \E m, n \in 1..Len(lines) :
                /\ m < n
                /\ LabelOf(m) \in JpLabels
                /\ LabelOf(n) \in EnLabels
                /\ NumberOf(LabelOf(m)) = NumberOf(LabelOf(n))
                /\ result.sentences[k] = Pair(TextOf(m), TextOf(n))

\* C3 (as claimed): each Japanese-labelled line contributes its text to at
\* most one emitted record, so a repeated English label emits nothing more.
C3_DuplicateDropped ==
    Parsed =>
        \A n \in 1..Len(lines) :
            LabelOf(n) \in JpLabels =>
                Cardinality({ k \in DOMAIN result.sentences :
                                "japanese" \in DOMAIN result.sentences[k]
                                /\ result.sentences[k]["japanese"] = TextOf(n) }) <= 1

\* Line n is Japanese-labelled and no English-labelled line follows it before
\* the next Japanese-labelled line or the end of the completion.
MissingEnglish(n) ==
    /\ LabelOf(n) \in JpLabels
    /\ \A m \in (n + 1)..Len(lines) :
          LabelOf(m) \in EnLabels =>
              \E j \in (n + 1)..(m - 1) : LabelOf(j) \in JpLabels

\* C4: a Japanese-labelled line that is not followed by an English-labelled
\* line before the next Japanese-labelled line or the end of the completion
\* is dropped: its text is in no emitted record.
C4_PendingDropped ==
    Parsed =>
        \A n \in 1..Len(lines) :
            MissingEnglish(n) =>
                \A k \in DOMAIN result.sentences :
                    \A key \in DOMAIN result.sentences[k] :
                        result.sentences[k][key] # TextOf(n)

\* A completion with a Japanese line that lost its English line, both before
\* another Japanese line and at the end, has been parsed and still emitted a
\* record.
C4_Witness ==
    /\ Parsed
    /\ \E n \in 1..Len(lines) :
          MissingEnglish(n) /\ \E m \in (n + 1)..Len(lines) : LabelOf(m) \in JpLabels
    /\ MissingEnglish(Len(lines))
    /\ Len(result.sentences) >= 1

\* Lines m < n are a Japanese-labelled line and its same-numbered
\* English-labelled line with no labelled line between them.
WellFormedPair(m, n) ==
    /\ m < n
    /\ LabelOf(m) \in JpLabels
    /\ LabelOf(n) \in EnLabels
    /\ NumberOf(LabelOf(m)) = NumberOf(LabelOf(n))
    /\ \A j \in (m + 1)..(n - 1) : LabelOf(j) = "none"

IsSentenceSet(r) ==
    /\ DOMAIN r = {"subject_id", "word", "sentences"}
    /\ \A k \in DOMAIN r.sentences :
          DOMAIN r.sentences[k] = {"japanese", "english"}

\* C5: for every completion the parser runs to its return (the loop stays
\* within the lines, so an iteration or the return is always possible), what
\* it returns is a SentenceSet, and every well-formed Japanese/English pair
\* of the completion is emitted whatever lines precede it.
C5_NeverAborts ==
    /\ pc \in {"call", "parse", "done"}
    /\ pc = "parse" => idx <= Len(lines)
    /\ pc = "done" /\ ~failed => idx = Len(lines)
    /\ pc = "done" => IsSentenceSet(result)
    /\ Parsed =>
          \A m, n \in 1..Len(lines) :
              WellFormedPair(m, n) =>
                  \E k \in DOMAIN result.sentences :
                      result.sentences[k] = Pair(TextOf(m), TextOf(n))

\* A completion whose well-formed pair comes after malformed lines (an
\* orphaned English label and a Japanese label without its English line) has
\* been parsed.
C5_Witness ==
    /\ Parsed
    /\ \E m, n \in 1..Len(lines) :
          /\ WellFormedPair(m, n)
          /\ \E j \in 1..(m - 1) : LabelOf(j) \in EnLabels /\ j = 1
          /\ \E j \in 1..(m - 1) : MissingEnglish(j)
          /\ \E k \in DOMAIN result.sentences :
                result.sentences[k] = Pair(TextOf(m), TextOf(n))

(***************************************************************************)
(* generate_sentences.main: the batch loop                                 *)
(***************************************************************************)
\* Bounds of the batch model.
MaxVocab == 21
MaxFaults == 3
\* "Progress save every 10 words"
SaveEvery == 10

Word(k) == [id |-> k, characters |-> <<"w">>]

Vocabularies == { [k \in 1..n |-> Word(k)] : n \in 0..MaxVocab }

\* The completion a healthy backend returns for a word: the requested four
\* lines, the four lines as a bulleted list (no line starts with a label), or
\* a completion cut after the third line.
CompletionFor(word) ==
    LET full == <<S1JP, S1EN, S2JP, S2EN>> IN
    CASE word.id % 3 = 1 -> [n \in 1..4 |-> MkLine(full[n], n, "plain")]
      [] word.id % 3 = 2 -> [n \in 1..4 |-> <<"*", full[n], " ", Tok(n)>>]
      [] OTHER           -> [n \in 1..3 |-> MkLine(full[n], n, "noisy")]

\* A variant without the try/except: a backend failure propagates.
GenerateSentencesNoCatch(word, outcome) ==
    IF outcome = "fail"
    THEN [raised |-> TRUE, value |-> SentenceSet(word, <<>>)]
    ELSE [raised |-> FALSE,
          value |-> SentenceSet(word, ParseLines(CompletionFor(word)))]

\* generate_sentences(word, call_llm), lines 100-142: the try branch parses
\* the completion, the except branch returns an empty SentenceSet; nothing
\* is raised to the caller.
GenerateSentences(word, outcome) ==
    IF outcome = "fail"
    THEN [raised |-> FALSE, value |-> SentenceSet(word, <<>>)]
    ELSE [raised |-> FALSE,
          value |-> SentenceSet(word, ParseLines(CompletionFor(word)))]

\* A variant that tests the index instead of the count.
SaveDueOnIndex(n) == (n - 1) % SaveEvery = 0

\* main, line 186, with n = i + 1 the number of items processed
SaveDue(n) == n % SaveEvery = 0

Count(seq, x) == Cardinality({ k \in DOMAIN seq : seq[k] = x })

InitBatch ==
    /\ bpc = "loop"
    /\ vocab \in Vocabularies
    /\ backend = <<>>
    /\ i = 0
    /\ results = <<>>
    /\ output = NoFile
    /\ ParseIdle
    /\ PwaIdle
    /\ ReviewIdle
    /\ FetchIdle

\* One iteration of the loop of main, lines 180-189: generate, append
\* (lines 182-183), and save when the count is a multiple of SaveEvery.
Iterate ==
    /\ bpc = "loop"
    /\ i < Len(vocab)
    /\ \E outcome \in {"ok", "fail"} :
          /\ outcome = "fail" => Count(backend, "fail") < MaxFaults
          /\ backend' = Append(backend, outcome)
          /\ LET g == GenerateSentences(vocab[i + 1], outcome) IN
             IF g.raised
             THEN \* an exception leaving generate_sentences ends main
                  /\ bpc' = "aborted"
                  /\ UNCHANGED <<i, results, output>>
             ELSE /\ results' = Append(results, g.value)
                  /\ i' = i + 1
                  /\ output' = IF SaveDue(i + 1) THEN File(results') ELSE output
                  /\ bpc' = bpc
    /\ UNCHANGED <<vocab, parseVars, pwaVars,
                 reviewVars, fetchVars>>

\* The loop is exhausted: the final save, lines 191-194.
FinalSave ==
    /\ bpc = "loop"
    /\ i = Len(vocab)
    /\ output' = File(results)
    /\ bpc' = "done"
    /\ UNCHANGED <<vocab, backend, i, results, parseVars, pwaVars,
                 reviewVars, fetchVars>>

\* The process is interrupted from outside between two iterations.
Interrupt ==
    /\ bpc = "loop"
    /\ bpc' = "interrupted"
    /\ UNCHANGED <<vocab, backend, i, results, output, parseVars, pwaVars,
                 reviewVars, fetchVars>>

NextBatch == Iterate \/ FinalSave \/ Interrupt

SpecBatch == InitBatch /\ [][NextBatch]_vars

(***************************************************************************)
(* Claims about the batch loop                                             *)
(***************************************************************************)
\* C6: a backend failure for one item resolves to a SentenceSet with no
\* sentences for that item and the loop goes on: for every pattern of
\* failures the final results, in memory and persisted, hold exactly one
\* SentenceSet per vocabulary item, in input order.
C6_OnePerItem ==
    /\ bpc # "aborted"
    /\ Len(results) = i /\ Len(backend) = i
    /\ \A k \in DOMAIN results :
          /\ IsSentenceSet(results[k])
          /\ results[k].subject_id = vocab[k].id
          /\ backend[k] = "fail" => results[k].sentences = <<>>
    /\ bpc = "done" => (i = Len(vocab) /\ output = File(results))

\* A batch with a failed item followed by a successful one has completed.
C6_Witness ==
    /\ bpc = "done"
    /\ \E k \in 1..(Len(backend) - 1) :
          /\ backend[k] = "fail" /\ backend[k + 1] = "ok"
          /\ results[k].sentences = <<>> /\ results[k + 1].sentences # <<>>

MaxItems == 2
MaxSentences == 2
MaxRuns == 2

\* Written forms of the target words, and Japanese texts: "bab" contains
\* both words, "aa" contains "a" but not "ab".
Words == { <<"a">>, <<"a", "b">> }
JapaneseTexts == { <<"b", "a", "b">>, <<"a", "a">> }

SentenceLists ==
    UNION { [1..n -> { Pair(jp, <<"e">>) : jp \in JapaneseTexts }] :
            n \in 0..MaxSentences }

\* A collection data/sentences.json can hold: item k has subject_id k.
Collection(n, ws, ss) ==
    [k \in 1..n |-> [subject_id |-> k, word |-> ws[k], sentences |-> ss[k]]]

\* Python's "word in text" on strings: word is a contiguous part of text.
Contains(word, text) ==
    \E k \in 0..(Len(text) - Len(word)) : SubSeq(text, k + 1, k + Len(word)) = word

\* A variant that counts the sentences that do contain the word.
IsWarningInverted(target_word, sentence) == Contains(target_word, sentence.japanese)

\* line 45: the test that counts a warning
IsWarning(target_word, sentence) == ~Contains(target_word, sentence.japanese)

\* A variant that keeps only the sentences containing the word.
KeepSentenceStrict(target_word, sentence) == Contains(target_word, sentence.japanese)

\* line 49: valid_sentences.append(sentence) is unconditional
KeepSentence(target_word, sentence) == TRUE

\* lines 40-49: the loop over the sentences of one item; acc is
\* [valid, warnings].
RECURSIVE ScanSentences(_, _, _)
ScanSentences(target_word, sents, acc) ==
    IF sents = <<>> THEN acc
    ELSE LET sentence == Head(sents)
             warnings == IF IsWarning(target_word, sentence)
                         THEN acc.warnings + 1 ELSE acc.warnings
             valid == IF KeepSentence(target_word, sentence)
                      THEN Append(acc.valid, sentence) ELSE acc.valid
         IN ScanSentences(target_word, Tail(sents),
                          [valid |-> valid, warnings |-> warnings])

\* lines 35-55: the loop over the items; acc is [cleaned, warnings].
RECURSIVE ScanItems(_, _)
ScanItems(data, acc) ==
    IF data = <<>> THEN acc
    ELSE LET item == Head(data)
             scan == ScanSentences(item.word, item.sentences,
                                   [valid |-> <<>>, warnings |-> acc.warnings])
             cleaned == IF scan.valid # <<>>
                        THEN Append(acc.cleaned, [item EXCEPT !.sentences = scan.valid])
                        ELSE acc.cleaned
         IN ScanItems(Tail(data), [cleaned |-> cleaned, warnings |-> scan.warnings])

CleanData(data) == ScanItems(data, [cleaned |-> <<>>, warnings |-> 0])

InitPwa ==
    /\ \/ source = NoFile
       \/ \E n \in 0..MaxItems :
             \E ws \in [1..n -> Words], ss \in [1..n -> SentenceLists] :
                 source = File(Collection(n, ws, ss))
    /\ dest = NoFile
    /\ runs = 0
    /\ warning_count = 0
    /\ ParseIdle
    /\ BatchIdle
    /\ ReviewIdle
    /\ FetchIdle

\* lines 26-29: without data/sentences.json the run ends at once.
SyncMissingSource ==
    /\ runs < MaxRuns
    /\ ~source.exists
    /\ runs' = runs + 1
    /\ UNCHANGED <<source, dest, warning_count, parseVars, batchVars,
                 reviewVars, fetchVars>>

\* A variant that writes the cleaned collection over the file it read.
SyncToPwaInPlace ==
    /\ runs < MaxRuns
    /\ source.exists
    /\ LET out == CleanData(source.data) IN
          /\ source' = File(out.cleaned)
          /\ warning_count' = out.warnings
    /\ runs' = runs + 1
    /\ UNCHANGED <<dest, parseVars, batchVars,
                 reviewVars, fetchVars>>

\* lines 31-63: one run of the packager: read the source, clean, write the
\* artifact.
SyncToPwa ==
    /\ runs < MaxRuns
    /\ source.exists
    /\ LET out == CleanData(source.data) IN
          /\ dest' = File(out.cleaned)
          /\ warning_count' = out.warnings
    /\ runs' = runs + 1
    /\ UNCHANGED <<source, parseVars, batchVars,
                 reviewVars, fetchVars>>

NextPwa == SyncMissingSource \/ SyncToPwa

SpecPwa == InitPwa /\ [][NextPwa]_vars

(***************************************************************************)
(* Claims about the validator and packager                                 *)
(***************************************************************************)
\* A run of the packager has read the source and written the artifact.
Synced == runs >= 1 /\ source.exists

HasSentences(item) == item.sentences # <<>>

\* C8 (as claimed): under the warn-only policy no item is dropped: the output
\* holds every input item, those without sentences included, unchanged and
\* in the same order.
C8_NoItemDropped == Synced => dest.data = source.data

\* C8 (amended): under the warn-only policy no sentence is dropped: the
\* output holds every input item that has at least one sentence, with all of
\* its sentences, in the same order; an item without sentences is left out.
C8_NoSentenceDropped ==
    Synced => (dest.exists /\ dest.data = SelectSeq(source.data, HasSentences))

\* A collection with an item without sentences, followed by an item with a
\* sentence that lacks the word, has been packaged.
C8_Witness ==
    /\ Synced
    /\ \E m, n \in DOMAIN source.data :
          /\ m < n
          /\ source.data[m].sentences = <<>>
          /\ \E k \in DOMAIN source.data[n].sentences :
                ~Contains(source.data[n].word, source.data[n].sentences[k].japanese)
    /\ Len(dest.data) = Len(source.data) - 1

\* The strict-filter policy of the specification: the sentences containing
\* the word survive, an item without survivors is dropped.
StrictFilter(data) ==
    LET survivors(item) ==
            SelectSeq(item.sentences, LAMBDA st : Contains(item.word, st.japanese))
        filtered == [n \in DOMAIN data |->
                        [data[n] EXCEPT !.sentences = survivors(data[n])]]
    IN SelectSeq(filtered, HasSentences)

FailingSentences ==
    { p \in UNION { { <<n, k>> : k \in DOMAIN source.data[n].sentences } :
                    n \in DOMAIN source.data } :
        ~Contains(source.data[p[1]].word, source.data[p[1]].sentences[p[2]].japanese) }

C10_Idempotent ==
    [][ runs' = runs + 1 =>
          /\ source' = source
          /\ (runs >= 1 /\ source.exists) => dest' = dest
          /\ source.exists =>
                /\ CleanData(dest'.data).cleaned = dest'.data
                /\ CleanData(dest'.data).warnings = warning_count' ]_vars

\* The packager ran twice on a source holding an item without sentences.
C10_Witness ==
    /\ runs = 2
    /\ source.exists /\ dest.exists
    /\ \E n \in DOMAIN source.data : source.data[n].sentences = <<>>
    /\ Len(dest.data) >= 1

(***************************************************************************)
(* sync_to_wanikani.main: Review Sync                                      *)
(***************************************************************************)
\* Bounds of the Review Sync model.
MaxReviews == 3
MaxSyncRuns == 2

\* Record k of a batch; subject_id 0 stands for a missing (or falsy)
\* subject_id, the case "not subject_id" of line 89.
EasyReview(k, hasId) == [subject_id |-> IF hasId THEN k ELSE 0, word |-> k]

Batch(n, ids) == [k \in 1..n |-> EasyReview(k, ids[k])]

\* What a POST /reviews can end in: the three status branches of
\* create_review and its except branch.
Statuses == {"201", "422", "500", "exception"}

\* A variant that takes "not available for review" for a success.
CreateReviewLenient(status) == status \in {"201", "422"}

\* create_review, lines 41-56: True only for status 201.
CreateReview(status) == status = "201"

\* A variant that archives after every batch.
ShouldArchiveAlways(succ) == succ >= 0

\* line 105
ShouldArchive(succ) == succ > 0

\* A run of the script can start: none has started, or the last one ended.
CanStart ==
    /\ spc \in {"start", "done", "interrupted"}
    /\ Len(history) < MaxSyncRuns

NoRequests == [issued |-> {}, accepted |-> {}]

\* The locals of a run that returns before loading a batch.
EarlyReturn ==
    /\ easy_reviews' = <<>>
    /\ pos' = 0 /\ success' = 0 /\ failed_reviews' = 0
    /\ requests' = <<>>
    /\ history' = Append(history, NoRequests)
    /\ spc' = "done"

InitReview ==
    /\ spc = "start"
    /\ api_key \in BOOLEAN
    /\ \/ pending = NoFile
       \/ \E n \in 0..MaxReviews : \E ids \in [1..n -> BOOLEAN] :
             pending = File(Batch(n, ids))
    /\ easy_reviews = <<>>
    /\ pos = 0 /\ success = 0 /\ failed_reviews = 0
    /\ requests = <<>> /\ archives = <<>> /\ history = <<>>
    /\ ParseIdle /\ BatchIdle /\ PwaIdle /\ FetchIdle

\* lines 59-62
StartNoKey ==
    /\ CanStart
    /\ ~api_key
    /\ EarlyReturn
    /\ UNCHANGED <<api_key, pending, archives, parseVars, batchVars, pwaVars, fetchVars>>

\* lines 67-70
StartNoFile ==
    /\ CanStart
    /\ api_key
    /\ ~pending.exists
    /\ EarlyReturn
    /\ UNCHANGED <<api_key, pending, archives, parseVars, batchVars, pwaVars, fetchVars>>

\* lines 72-77
StartEmpty ==
    /\ CanStart
    /\ api_key
    /\ pending.exists /\ pending.data = <<>>
    /\ EarlyReturn
    /\ UNCHANGED <<api_key, pending, archives, parseVars, batchVars, pwaVars, fetchVars>>

\* lines 72-83: the batch is loaded and the counters are reset.
Load ==
    /\ CanStart
    /\ api_key
    /\ pending.exists /\ pending.data # <<>>
    /\ easy_reviews' = pending.data
    /\ pos' = 0 /\ success' = 0 /\ failed_reviews' = 0
    /\ requests' = <<>>
    /\ history' = Append(history, NoRequests)
    /\ spc' = "loop"
    /\ UNCHANGED <<api_key, pending, archives, parseVars, batchVars, pwaVars, fetchVars>>

\* lines 86-92: a record without subject_id is counted as failed, no request.
ProcessSkip ==
    /\ spc = "loop"
    /\ pos < Len(easy_reviews)
    /\ easy_reviews[pos + 1].subject_id = 0
    /\ failed_reviews' = failed_reviews + 1
    /\ pos' = pos + 1
    /\ UNCHANGED <<spc, api_key, pending, easy_reviews, success, requests, archives,
                   history, parseVars, batchVars, pwaVars, fetchVars>>

\* lines 94-100: the request is sent and counted by its outcome.
ProcessRequest ==
    /\ spc = "loop"
    /\ pos < Len(easy_reviews)
    /\ easy_reviews[pos + 1].subject_id # 0
    /\ \E status \in Statuses :
          /\ requests' = Append(requests,
                [subject_id |-> easy_reviews[pos + 1].subject_id, status |-> status])
          /\ history' = [history EXCEPT ![Len(history)] =
                [issued |-> @.issued \cup {pos + 1},
                 accepted |-> IF status = "201" THEN @.accepted \cup {pos + 1}
                              ELSE @.accepted]]
          /\ IF CreateReview(status)
             THEN success' = success + 1 /\ failed_reviews' = failed_reviews
             ELSE failed_reviews' = failed_reviews + 1 /\ success' = success
    /\ pos' = pos + 1
    /\ UNCHANGED <<spc, api_key, pending, easy_reviews, archives,
                   parseVars, batchVars, pwaVars, fetchVars>>

\* lines 102-105: the loop is exhausted.
Tally ==
    /\ spc = "loop"
    /\ pos = Len(easy_reviews)
    /\ spc' = IF ShouldArchive(success) THEN "archive_open" ELSE "done"
    /\ UNCHANGED <<api_key, pending, easy_reviews, pos, success, failed_reviews,
                   requests, archives, history, parseVars, batchVars, pwaVars, fetchVars>>

\* A variant that removes the pending file as soon as the archive is opened.
ArchiveOpenUnlinking ==
    /\ spc = "archive_open"
    /\ archives' = Append(archives,
          [complete |-> FALSE, success |-> 0, failed |-> 0, items |-> <<>>])
    /\ pending' = NoFile
    /\ spc' = "archive_dump"
    /\ UNCHANGED <<api_key, easy_reviews, pos, success, failed_reviews,
                   requests, history, parseVars, batchVars, pwaVars, fetchVars>>

\* lines 106-112: the archive file is opened for writing, still empty.
ArchiveOpen ==
    /\ spc = "archive_open"
    /\ archives' = Append(archives,
          [complete |-> FALSE, success |-> 0, failed |-> 0, items |-> <<>>])
    /\ spc' = "archive_dump"
    /\ UNCHANGED <<api_key, pending, easy_reviews, pos, success, failed_reviews,
                   requests, history, parseVars, batchVars, pwaVars, fetchVars>>

\* lines 113-118: the tally and the whole batch are written.
ArchiveDump ==
    /\ spc = "archive_dump"
    /\ archives' = [archives EXCEPT ![Len(archives)] =
          [complete |-> TRUE, success |-> success, failed |-> failed_reviews,
           items |-> easy_reviews]]
    /\ spc' = "unlink"
    /\ UNCHANGED <<api_key, pending, easy_reviews, pos, success, failed_reviews,
                   requests, history, parseVars, batchVars, pwaVars, fetchVars>>

\* A variant that leaves the pending file in place.
UnlinkForgotten ==
    /\ spc = "unlink"
    /\ spc' = "done"
    /\ UNCHANGED <<api_key, pending, easy_reviews, pos, success, failed_reviews,
                   requests, archives, history, parseVars, batchVars, pwaVars, fetchVars>>

\* line 123
Unlink ==
    /\ spc = "unlink"
    /\ pending' = NoFile
    /\ spc' = "done"
    /\ UNCHANGED <<api_key, easy_reviews, pos, success, failed_reviews,
                   requests, archives, history, parseVars, batchVars, pwaVars, fetchVars>>

\* The process is interrupted from outside between two steps of a run.
InterruptSync ==
    /\ spc \in {"loop", "archive_open", "archive_dump", "unlink"}
    /\ spc' = "interrupted"
    /\ UNCHANGED <<api_key, pending, easy_reviews, pos, success, failed_reviews,
                   requests, archives, history, parseVars, batchVars, pwaVars, fetchVars>>

NextReview ==
    \/ StartNoKey \/ StartNoFile \/ StartEmpty \/ Load
    \/ ProcessSkip \/ ProcessRequest \/ Tally
    \/ ArchiveOpen \/ ArchiveDump \/ Unlink

SpecReview == InitReview /\ [][NextReview]_vars

NextReviewCrash == NextReview \/ InterruptSync

SpecReviewCrash == InitReview /\ [][NextReviewCrash]_vars

(***************************************************************************)
(* Claims about Review Sync                                                *)
(***************************************************************************)
\* The current run loaded a batch and reached its end.
SyncDone == spc = "done" /\ easy_reviews # <<>>

\* At least one request of the current run was accepted.
AnyAccepted == \E k \in DOMAIN requests : requests[k].status = "201"

NumAccepted == Cardinality({ k \in DOMAIN requests : requests[k].status = "201" })

\* Some complete archive file holds the record.
Archived(rec) ==
    \E a \in DOMAIN archives :
        /\ archives[a].complete
        /\ \E k \in DOMAIN archives[a].items : archives[a].items[k] = rec

\* The pending file holds the record.
Pending(rec) ==
    pending.exists /\ \E k \in DOMAIN pending.data : pending.data[k] = rec

\* C11: Review Sync archives the full batch (every record, the failed ones
\* included, with the success and failed tally) and clears the pending
\* collection if and only if at least one request succeeded; when none
\* succeeded no archive is written and the pending collection is unchanged.
C11_ArchiveIffSuccess ==
    SyncDone =>
        IF AnyAccepted
        THEN /\ Len(archives) = 1
             /\ archives[1] = [complete |-> TRUE, success |-> success,
                               failed |-> failed_reviews, items |-> easy_reviews]
             /\ success + failed_reviews = Len(easy_reviews)
             /\ ~pending.exists
        ELSE /\ archives = <<>>
             /\ pending = File(easy_reviews)

\* A batch with a success and failures has been archived and cleared.
C11_Witness ==
    /\ SyncDone
    /\ AnyAccepted
    /\ failed_reviews >= 2
    /\ \E k \in DOMAIN requests : requests[k].status = "422"
    /\ Len(archives) = 1 /\ Len(archives[1].items) = Len(easy_reviews)
    /\ ~pending.exists

\* The runs in which a request was issued for record k of the pending batch.
RunsIssuing(k) == { r \in DOMAIN history : k \in history[r].issued }

\* C12 (as claimed): a mark-correct request is issued for a given pending
\* record in at most one run.
C12_RequestedInOneRun ==
    \A k \in 1..MaxReviews : Cardinality(RunsIssuing(k)) <= 1

\* C12 (amended): a record is requested again only after runs in which no
\* request succeeded: every run that issues a request for a record is
\* preceded only by runs without a success, so a record is accepted in at
\* most one run; the first run with a success archives the whole batch and
\* deletes it from the pending location.
C12_ConsumedOnFirstSuccess ==
    /\ \A k \in 1..MaxReviews : \A r \in RunsIssuing(k) :
          \A q \in 1..(r - 1) : history[q].accepted = {}
    /\ \A k \in 1..MaxReviews :
          Cardinality({ r \in DOMAIN history : k \in history[r].accepted }) <= 1
    /\ (spc = "done" /\ \E r \in DOMAIN history : history[r].accepted # {}) =>
          /\ ~pending.exists
          /\ \A a \in DOMAIN archives : archives[a].complete
          /\ Len(archives) = 1
          /\ \A r \in DOMAIN history : \A k \in history[r].issued :
                \E j \in DOMAIN archives[1].items :
                    archives[1].items[j].subject_id = k

\* A first run in which every request failed was followed by a run that
\* requested the same record again, had it accepted, archived and cleared.
C12_Witness ==
    /\ spc = "done"
    /\ Len(history) = 2
    /\ history[1].issued # {} /\ history[1].accepted = {}
    /\ history[2].accepted \cap history[1].issued # {}
    /\ ~pending.exists /\ Len(archives) = 1

\* The subject ids of the records that carry one, in batch order.
IdsOf(batch) ==
    LET withId == SelectSeq(batch, LAMBDA rec : rec.subject_id # 0)
    IN [k \in DOMAIN withId |-> withId[k].subject_id]

\* C13: Review Sync processes every record whatever the outcome of earlier
\* ones: exactly the records with a subject_id issue a request, in order; a
\* record counts as a success only when its request was accepted; success +
\* failed equals the number of records processed, the batch size at the
\* end; and the archived tally equals the two counts.
C13_EveryRecordCounted ==
    /\ spc \in {"loop", "archive_open", "archive_dump", "unlink", "done"} =>
          /\ success + failed_reviews = pos
          /\ success = NumAccepted
          /\ [k \in DOMAIN requests |-> requests[k].subject_id]
                = IdsOf(SubSeq(easy_reviews, 1, pos))
    /\ spc \in {"archive_open", "archive_dump", "unlink", "done"} =>
          pos = Len(easy_reviews)
    /\ (spc = "unlink" \/ (SyncDone /\ AnyAccepted)) =>
          /\ archives # <<>>
          /\ archives[Len(archives)].success = success
          /\ archives[Len(archives)].failed = failed_reviews
    /\ \A a \in DOMAIN archives :
          archives[a].complete =>
              archives[a].success + archives[a].failed = Len(archives[a].items)

\* A batch of three (a record without subject_id first, then a request
\* answered 422, then an accepted one) has been archived with its tally.
C13_Witness ==
    /\ SyncDone
    /\ Len(easy_reviews) = 3
    /\ easy_reviews[1].subject_id = 0
    /\ Len(requests) = 2
    /\ requests[1].status = "422" /\ requests[2].status = "201"
    /\ Len(archives) = 1 /\ archives[1].success = 1 /\ archives[1].failed = 2

\* C16: the archive file is written before the pending collection is
\* deleted: in every reachable state, interrupted runs included, each record
\* of the loaded batch is held by the pending collection or by a completely
\* written archive file.
C16_NoRecordLost ==
    \A k \in DOMAIN easy_reviews :
        Pending(easy_reviews[k]) \/ Archived(easy_reviews[k])

\* A run was interrupted while its archive file was open and still empty,
\* and another after the pending file was deleted.
C16_Witness ==
    /\ spc = "interrupted"
    /\ easy_reviews # <<>>
    /\ Len(archives) = 2
    /\ archives[1].complete /\ ~archives[2].complete
    /\ pending.exists

(***************************************************************************)
(* fetch_vocab.extract_vocab_data                                          *)
(***************************************************************************)
\* Bounds of the vocabulary fetch model.
MaxAssignments == 3
MaxStage == 2
MaxLevel == 2

\* dict.get(key, default)
Get(d, key, default) == IF key \in DOMAIN d THEN d[key] ELSE default

\* An assignment resource of the API; subject ids are distinct, one
\* assignment per subject.
Assignment(k, stage) == [data |-> [subject_id |-> k, srs_stage |-> stage]]

\* The readings (or meanings) of subject k: two entries, the second flagged
\* primary for odd k, none flagged for even k.
Entries(k, field) ==
    [j \in 1..2 |-> DictSet(DictSet(EmptyDict, field, 10 * k + j),
                            "primary", j = 2 /\ k % 2 = 1)]

\* A subject resource of the API; level 0 stands for a resource without
\* a "level" key.
Subject(k, level) ==
    LET base == DictSet(DictSet(DictSet(EmptyDict, "characters", k),
                                "readings", Entries(k, "reading")),
                        "meanings", Entries(k, "meaning"))
    IN [id |-> k, data |-> IF level = 0 THEN base ELSE DictSet(base, "level", level)]

\* What fetch_subjects returns: the resources by id, for the ids answered.
Subjects(n, fetched, levels) ==
    [k \in { j \in 1..n : fetched[j] } |-> Subject(k, levels[k])]

\* lines 75-82: the first entry flagged primary, else the first entry.
Primary(entries, field) ==
    LET flagged == SelectSeq(entries, LAMBDA e : Get(e, "primary", FALSE))
    IN IF flagged # <<>> THEN flagged[1][field] ELSE Get(entries[1], field, "")

\* lines 84-91
VocabRecord(assignment, subject) ==
    [id |-> assignment.data.subject_id,
     characters |-> Get(subject.data, "characters", ""),
     reading |-> Primary(subject.data["readings"], "reading"),
     meaning |-> Primary(subject.data["meanings"], "meaning"),
     level |-> Get(subject.data, "level", 0),
     srs_stage |-> assignment.data.srs_stage]

\* lines 66-91: the records in assignment order, unfetched subjects skipped.
RECURSIVE Collect(_, _)
Collect(assigns, subjs) ==
    IF assigns = <<>> THEN <<>>
    ELSE LET rest == Collect(SubSeq(assigns, 1, Len(assigns) - 1), subjs)
             assignment == assigns[Len(assigns)]
             subject_id == assignment.data.subject_id
         IN IF subject_id \notin DOMAIN subjs THEN rest
            ELSE Append(rest, VocabRecord(assignment, subjs[subject_id]))

\* A variant of the key that ignores the level.
SortKeyStageOnly(x) == <<x.srs_stage, 0>>

\* line 94: the key of the sort.
SortKey(x) == <<x.srs_stage, x.level>>

\* Python's a <= b on pairs of integers.
KeyLeq(a, b) == a[1] < b[1] \/ (a[1] = b[1] /\ a[2] <= b[2])

\* x put into the sorted list s behind every element whose key is not
\* greater: list.sort is stable.
RECURSIVE Insert(_, _)
Insert(s, x) ==
    IF s = <<>> THEN <<x>>
    ELSE IF KeyLeq(SortKey(s[Len(s)]), SortKey(x)) THEN Append(s, x)
    ELSE Append(Insert(SubSeq(s, 1, Len(s) - 1), x), s[Len(s)])

\* line 94: list.sort(key=...)
RECURSIVE Sort(_)
Sort(s) ==
    IF s = <<>> THEN <<>>
    ELSE Insert(Sort(SubSeq(s, 1, Len(s) - 1)), s[Len(s)])

\* lines 62-96
ExtractVocabData(assigns, subjs) == Sort(Collect(assigns, subjs))

InitFetch ==
    /\ fpc = "start"
    /\ \E n \in 0..MaxAssignments :
          \E stages \in [1..n -> 1..MaxStage] :
             \E fetched \in [1..n -> BOOLEAN] :
                \E levels \in [1..n -> 0..MaxLevel] :
                   /\ \A k \in 1..n : ~fetched[k] => levels[k] = 0
                   /\ assignments = [k \in 1..n |-> Assignment(k, stages[k])]
                   /\ subjects = Subjects(n, fetched, levels)
    /\ vocab_list = <<>>
    /\ ParseIdle /\ BatchIdle /\ PwaIdle /\ ReviewIdle

\* main, lines 107-109: nothing to extract.
NoVocabulary ==
    /\ fpc = "start"
    /\ assignments = <<>>
    /\ fpc' = "done"
    /\ UNCHANGED <<assignments, subjects, vocab_list,
                   parseVars, batchVars, pwaVars, reviewVars>>

\* main, line 115: the call of extract_vocab_data.
Extract ==
    /\ fpc = "start"
    /\ assignments # <<>>
    /\ vocab_list' = ExtractVocabData(assignments, subjects)
    /\ fpc' = "extracted"
    /\ UNCHANGED <<assignments, subjects,
                   parseVars, batchVars, pwaVars, reviewVars>>

NextFetch == NoVocabulary \/ Extract

SpecFetch == InitFetch /\ [][NextFetch]_vars

(***************************************************************************)
(* Claims about the vocabulary list                                        *)
(***************************************************************************)
\* The positions of the assignments whose subject was fetched.
FetchedAssignments ==
    { k \in DOMAIN assignments : assignments[k].data.subject_id \in DOMAIN subjects }

\* C14: the list produced by extract_vocab_data is sorted ascending by
\* (srs_stage, level): of two adjacent records the first has the smaller
\* srs_stage, or the same srs_stage and a level not greater; and the list
\* holds exactly one record per assignment whose subject was fetched,
\* carrying that assignment's srs_stage and that subject's level.
C14_SortedOnePerAssignment ==
    fpc = "extracted" =>
        /\ \A j \in 1..(Len(vocab_list) - 1) :
              \/ vocab_list[j].srs_stage < vocab_list[j + 1].srs_stage
              \/ /\ vocab_list[j].srs_stage = vocab_list[j + 1].srs_stage
                 /\ vocab_list[j].level <= vocab_list[j + 1].level
        /\ Len(vocab_list) = Cardinality(FetchedAssignments)
        /\ \A k \in FetchedAssignments :
              LET sid == assignments[k].data.subject_id
                  hits == { j \in DOMAIN vocab_list : vocab_list[j].id = sid }
              IN /\ Cardinality(hits) = 1
                 /\ \A j \in hits :
                       /\ vocab_list[j].srs_stage = assignments[k].data.srs_stage
                       /\ vocab_list[j].level = Get(subjects[sid].data, "level", 0)

\* Three assignments, one of them without a fetched subject, the other two
\* at the same stage and given in descending level: the list holds the two
\* in ascending level.
C14_Witness ==
    /\ fpc = "extracted"
    /\ Len(assignments) = 3
    /\ Cardinality(FetchedAssignments) = 2
    /\ Len(vocab_list) = 2
    /\ vocab_list[1].srs_stage = vocab_list[2].srs_stage
    /\ vocab_list[1].level < vocab_list[2].level
    /\ vocab_list[1].id > vocab_list[2].id

(***************************************************************************)
(* generate_sentences.main: the saves, step by step                        *)
(***************************************************************************)
\* The batch loop with each save split into its steps: open(output_path,
\* "w") truncates the file, json.dump then writes the collection piece by
\* piece, and leaving the with block closes the file.

InitSave == InitBatch

\* lines 180-186: generate, append, and decide whether a save is due.
Generate ==
    /\ bpc = "loop"
    /\ i < Len(vocab)
    /\ \E outcome \in {"ok", "fail"} :
          /\ outcome = "fail" => Count(backend, "fail") < MaxFaults
          /\ backend' = Append(backend, outcome)
          /\ LET g == GenerateSentences(vocab[i + 1], outcome) IN
             IF g.raised
             THEN /\ bpc' = "aborted"
                  /\ UNCHANGED <<i, results>>
             ELSE /\ results' = Append(results, g.value)
                  /\ i' = i + 1
                  /\ bpc' = IF SaveDue(i + 1) THEN "progress_open" ELSE "loop"
    /\ UNCHANGED <<vocab, output, parseVars, pwaVars, reviewVars, fetchVars>>

\* open(output_path, "w"): the file exists and is empty.
Truncate(next) ==
    /\ output' = File(<<>>)
    /\ bpc' = next
    /\ UNCHANGED <<vocab, backend, i, results, parseVars, pwaVars, reviewVars, fetchVars>>

\* json.dump(results, f, ...): one more item reaches the file; when all
\* have, the with block is left.
Dump(next) ==
    /\ IF Len(output.data) < Len(results)
       THEN /\ output' = File(Append(output.data, results[Len(output.data) + 1]))
            /\ bpc' = bpc
       ELSE /\ output' = output
            /\ bpc' = next
    /\ UNCHANGED <<vocab, backend, i, results, parseVars, pwaVars, reviewVars, fetchVars>>

\* line 188
OpenProgress == bpc = "progress_open" /\ Truncate("progress_dump")

\* line 189
DumpProgress == bpc = "progress_dump" /\ Dump("loop")

\* lines 192-193: the loop is exhausted.
OpenFinal == bpc = "loop" /\ i = Len(vocab) /\ Truncate("final_dump")

\* line 194
DumpFinal == bpc = "final_dump" /\ Dump("done")

\* The process is interrupted from outside at any step.
InterruptSave ==
    /\ bpc \in {"loop", "progress_open", "progress_dump", "final_dump"}
    /\ bpc' = "interrupted"
    /\ UNCHANGED <<vocab, backend, i, results, output, parseVars, pwaVars,
                   reviewVars, fetchVars>>

NextSave ==
    \/ Generate \/ OpenProgress \/ DumpProgress
    \/ OpenFinal \/ DumpFinal \/ InterruptSave

SpecSave == InitSave /\ [][NextSave]_vars

(***************************************************************************)
(* Claims about interrupted saves                                          *)
(***************************************************************************)
\* The sizes the last completely persisted result can have once i items
\* are processed and more than SaveEvery of them: the last multiple of
\* SaveEvery, or the one before it when the save at i is the one under way.
LastSavedSizes ==
    LET top == SaveEvery * (i \div SaveEvery)
    IN {top} \cup (IF i = top THEN {top - SaveEvery} ELSE {})

\* C15: an interruption of the batch at any step, in the middle of a save
\* included, leaves the persisted output collection equal to the last
\* completely persisted partial result: once a save point has completed, no
\* state after an interruption has an empty or partially written output.
C15_InterruptKeepsLastSave ==
    (bpc = "interrupted" /\ i > SaveEvery) =>
        /\ output.exists
        /\ Len(output.data) \in LastSavedSizes
        /\ output.data = SubSeq(results, 1, Len(output.data))

====
